---- MODULE Spec2Model ----
(***************************************************************************)
(* The job queue (src/src/queue/job-queue.ts) and the worker pool          *)
(* (src/unnamed/part_010) of ai_developer.  The queue keeps its state in   *)
(* the Redis store: one JSON record per job and five partitions (the       *)
(* waiting list, the delayed hash, the active, completed and failed sets). *)
(* Every queue method is a chain of awaited store commands; one command is *)
(* one step here, so that calls of several workers and producers           *)
(* interleave exactly where the code awaits.                               *)
(***************************************************************************)
EXTENDS Integers, Sequences, FiniteSets, TLC

\* ---------------------------------------------------------------- bounds
\* Number of job ids generateJobId hands out in a behaviour.
NJobs == 2
\* Workers of the pool (config.worker.poolSize, WORKER_POOL_SIZE).
poolSize == 2
\* External callers of the queue API (producers, direct callers).
NClients == 1
\* config.queue.maxJobs (QUEUE_MAX_JOBS), the capacity of the waiting list.
maxJobs == 1
\* config.worker.maxJobsPerWorker (WORKER_MAX_JOBS_PER_WORKER).
maxJobsPerWorker == 2
\* The clock advances in steps of TickMs, MaxTicks times.
TickMs == 60000
MaxTicks == 1
\* Largest explicit attempts option a caller passes to add.
MaxAttemptsOpt == 2
\* A direct caller stops calling failJob on a job that failed MaxFails times.
MaxFails == 2
\* config.queue.maxJobs of the queue whose ordering is examined (SpecOrder).
WideMaxJobs == 2
\* The attempts option of the jobs whose backoff is examined (SpecRetry).
BackoffAttempts == 6
\* The timeout option (ms) producers pass to add in SpecFaulty.
TimeoutOpt == 60000
\* The retryDelay option (ms) producers pass to add in SpecBaseDelay.
RetryDelayOpt == 120000

\* ------------------------------------------------------ program constants
\* config.queue.retryDelay, the base of the backoff (ms).
retryDelay == 60000
\* The ceiling of the backoff in calculateRetryDelay (ms).
RetryCeiling == 300000
\* config.queue.jobTimeout (ms), the timer processJob races the handler with.
jobTimeout == 600000
\* Worker.stop waits for the job in flight at most maxWaitTime (ms), looking
\* at currentJob every stopPollMs (ms).
maxWaitTime == 30000
stopPollMs == 500

\* ------------------------------------------------------------------ sets
JobIds == 1..NJobs
Workers == 1..poolSize
Clients == (poolSize + 1)..(poolSize + NClients)
Procs == Workers \cup Clients
NoId == 0
Priorities == {0, 1}
Delays == {0, TickMs}
AttemptOpts == 0..MaxAttemptsOpt
\* The names the application registers handlers for before it starts the
\* pool; jobs named "orphan" have no handler.
handlers == {"task"}
Options ==
    [name : handlers, priority : Priorities, delay : Delays, attempts : AttemptOpts]
\* The pool's producers add jobs of priority 0 with MaxAttemptsOpt attempts.
PoolOptions ==
    [name : handlers, priority : {0}, delay : {0, TickMs}, attempts : {MaxAttemptsOpt}]
\* Jobs nobody registered a handler for.
OrphanOptions ==
    [name : {"orphan"}, priority : {0}, delay : {0}, attempts : {MaxAttemptsOpt}]
\* Jobs with one attempt, added with a timeout option of their own.
FaultyOptions ==
    [name : handlers, priority : {0}, delay : {0}, attempts : {1},
     timeout : {TimeoutOpt}]
\* The job names of the application.
JobNames == {"task", "orphan"}
\* One-attempt jobs of either name, added without delay.
NamedOptions == [name : JobNames, priority : {0}, delay : {0}, attempts : {1}]
\* Jobs with one attempt, added without delay.
CleanOptions == [name : handlers, priority : {0}, delay : {0}, attempts : {1}]
\* Jobs that are retried until the backoff has reached its ceiling.
RetryOptions ==
    [name : handlers, priority : {0}, delay : {0}, attempts : {BackoffAttempts}]
\* Jobs that are retried, added with a retry base delay of their own.
BaseDelayOptions ==
    [name : handlers, priority : {0}, delay : {0}, attempts : {BackoffAttempts},
     retryDelay : {RetryDelayOpt}]
\* Jobs that get a second attempt, added without delay.
TwiceOptions ==
    [name : handlers, priority : {0}, delay : {0}, attempts : {MaxAttemptsOpt}]
\* Jobs of either priority, added without delay.
OrderOptions ==
    [name : handlers, priority : Priorities, delay : {0}, attempts : AttemptOpts]

VARIABLES
    jobs,           \* the job records, keys "job:<id>": id -> record
    waiting,        \* the list "waiting": head is the left end
    delayed,        \* the hash "delayed": id -> ready time
    active,         \* the set "active"
    completed,      \* the set "completed"
    failed,         \* the set "failed"
    now,            \* Date.now()
    nextId,         \* ids generated so far
    pc,             \* where each caller stands
    loc,            \* each caller's locals: jobId, job, the promotion's work list
    ret,            \* what a client's last call returned or threw
    poolRunning,    \* WorkerPool.running
    running,        \* Worker.running
    workerStatus,   \* Worker.status
    processedJobs,  \* Worker.processedJobs
    failedJobs,     \* Worker.failedJobs
    currentJob,     \* Worker.currentJob (its id)
    runs,           \* handler invocations per job id (history)
    abandoned,      \* per job id, the handler invocations the timer of
                    \* executeWithTimeout has given up on and that still run
    capacity,       \* JobQueue.maxJobs, set by the constructor from the configuration
    poolHandlers,   \* WorkerPool.handlers: the job names a handler is registered for
    workerHandlers  \* Worker.handlers of each worker: the names it has a handler for

store == <<jobs, waiting, delayed, active, completed, failed>>
hvars == <<poolHandlers, workerHandlers>>
wvars == <<poolRunning, running, workerStatus, processedJobs, failedJobs, currentJob,
           poolHandlers, workerHandlers>>
vars == <<jobs, waiting, delayed, active, completed, failed, now, capacity, nextId,
          pc, loc, ret, poolRunning, running, workerStatus, processedJobs,
          failedJobs, currentJob, runs, abandoned, poolHandlers, workerHandlers>>

\* ------------------------------------------------------------ job records
\* A record keeps name, status, priority, attempts and maxAttempts as they
\* are; of the timestamps, the error and the result it keeps whether they are
\* set (data and createdAt are written once by add and never read by the
\* queue or the workers).
BlankJob ==
    [name |-> "none", status |-> "none", priority |-> 0, attempts |-> 0,
     maxAttempts |-> 0,
     startedAt |-> FALSE, completedAt |-> FALSE, failedAt |-> FALSE,
     error |-> FALSE, result |-> FALSE]

NewJob(opts) ==
    [name |-> opts.name,
     status |-> IF opts.delay > 0 THEN "delayed" ELSE "waiting",
     priority |-> opts.priority, attempts |-> 0, maxAttempts |-> opts.attempts,
     startedAt |-> FALSE, completedAt |-> FALSE, failedAt |-> FALSE,
     error |-> FALSE, result |-> FALSE]

\* timer: when processJob armed the timer of the handler that is running;
\* outcome: how the handler ended; reported: the queue methods processJob has
\* called for the job since (history); part, cutoff, cleaned: the partition
\* cleanCompleted / cleanFailed goes through, its cutoff and its counter.
NoLoc ==
    [id |-> NoId, job |-> BlankJob, todo |-> {}, delay |-> 0, timer |-> 0,
     outcome |-> "none", reported |-> <<>>, part |-> "none", cutoff |-> 0,
     cleaned |-> 0]
NoRet == [op |-> "none", val |-> "none", id |-> NoId]

RECURSIVE Pow2(_)
Pow2(n) == IF n <= 0 THEN 1 ELSE 2 * Pow2(n - 1)

Min(a, b) == IF a <= b THEN a ELSE b

calculateRetryDelay_uncapped(attempts) == retryDelay * Pow2(attempts - 1)

calculateRetryDelay(attempts) ==
    IF attempts >= 1
    THEN Min(retryDelay * Pow2(attempts - 1), RetryCeiling)
    ELSE Min(retryDelay \div 2, RetryCeiling)

\* ------------------------------------------------------- store commands
getJSON(id) == IF id \in DOMAIN jobs THEN jobs[id] ELSE BlankJob
setJSON(id, job) == [k \in DOMAIN jobs \cup {id} |-> IF k = id THEN job ELSE jobs[k]]
lpush(id) == <<id>> \o waiting
hset(id, t) == [k \in DOMAIN delayed \cup {id} |-> IF k = id THEN t ELSE delayed[k]]
hdel(id) == [k \in DOMAIN delayed \ {id} |-> delayed[k]]

\* ------------------------------------------------------------------ Init
\* The state after construction of a queue configured with maxJobs = c and
\* of a pool that has not been started, handlers being registered on the
\* pool for the job names in names.
InitPool(c, names) ==
    /\ capacity = c
    /\ poolHandlers = names
    /\ workerHandlers = [w \in Workers |-> {}]
    /\ jobs = <<>>
    /\ waiting = <<>>
    /\ delayed = <<>>
    /\ active = {}
    /\ completed = {}
    /\ failed = {}
    /\ now = 0
    /\ nextId = 0
    /\ pc = [p \in Procs |-> IF p \in Workers THEN "new" ELSE "idle"]
    /\ loc = [p \in Procs |-> NoLoc]
    /\ ret = [p \in Clients |-> NoRet]
    /\ poolRunning = FALSE
    /\ running = [w \in Workers |-> FALSE]
    /\ workerStatus = [w \in Workers |-> "idle"]
    /\ processedJobs = [w \in Workers |-> 0]
    /\ failedJobs = [w \in Workers |-> 0]
    /\ currentJob = [w \in Workers |-> NoId]
    /\ runs = [j \in JobIds |-> 0]
    /\ abandoned = [j \in JobIds |-> 0]

\* The application registers its handlers before it starts the pool.
InitWith(c) == InitPool(c, handlers)

Init == InitWith(maxJobs)

\* ------------------------------------------------- control-flow helpers
Goto(p, label) == pc' = [pc EXCEPT ![p] = label]
SetLoc(p, l) == loc' = [loc EXCEPT ![p] = l]

\* A call made by a client returns (or throws) val; the client is idle again.
ClientReturn(p, op, val, id) ==
    /\ ret' = [ret EXCEPT ![p] = [op |-> op, val |-> val, id |-> id]]
    /\ Goto(p, "idle")
    /\ SetLoc(p, NoLoc)
    /\ UNCHANGED <<wvars, runs, abandoned>>

\* processJob's finally block, then back to the top of processLoop.
\* outcome: "completed" (processedJobs++), "failed" (failedJobs++), or
\* "error" (failJob threw: the loop's catch sets status "error" and sleeps).
WorkerFinish(w, outcome) ==
    /\ processedJobs' = [processedJobs EXCEPT ![w] = IF outcome = "completed" THEN @ + 1 ELSE @]
    /\ failedJobs' = [failedJobs EXCEPT ![w] = IF outcome = "failed" THEN @ + 1 ELSE @]
    /\ currentJob' = [currentJob EXCEPT ![w] = NoId]
    /\ workerStatus' = [workerStatus EXCEPT ![w] = IF outcome = "error" THEN "error" ELSE "idle"]
    /\ Goto(w, "loop")
    /\ SetLoc(w, NoLoc)
    /\ UNCHANGED <<poolRunning, running, ret, runs, abandoned, hvars>>

HasHandler_pool(w, name) == name \in poolHandlers

\* processJob's lookup this.handlers.get(job.name) in worker w.
HasHandler(w, name) == name \in workerHandlers[w]

\* WorkerPool.registerHandler: the handler goes into the pool's map.
registerHandler(jobName) ==
    /\ poolHandlers' = poolHandlers \cup {jobName}
    /\ UNCHANGED <<store, now, capacity, nextId, pc, loc, ret, poolRunning, running,
                   workerStatus, processedJobs, failedJobs, currentJob, runs, abandoned,
                   workerHandlers>>

\* getNextJob returns v (NoId for null), the job it read being loc[p].job.
\* A worker that got a job enters processJob: it invokes the handler
\* registered for the job's name, or, there being none, throws into its
\* catch, which calls failJob.  On null it sleeps and loops.
GetNextJobReturn(p, v) ==
    IF p \in Clients
    THEN ClientReturn(p, "getNextJob", IF v = NoId THEN "null" ELSE "job", v)
    ELSE /\ IF v # NoId
            THEN /\ currentJob' = [currentJob EXCEPT ![p] = v]
                 /\ workerStatus' = [workerStatus EXCEPT ![p] = "busy"]
                 /\ IF HasHandler(p, loc[p].job.name)
                    THEN /\ runs' = [runs EXCEPT ![v] = @ + 1]
                         /\ UNCHANGED abandoned
                         /\ Goto(p, "handler")
                         /\ SetLoc(p, [NoLoc EXCEPT !.id = v, !.timer = now])
                    ELSE /\ Goto(p, "f_get")
                         /\ SetLoc(p, [NoLoc EXCEPT !.id = v, !.outcome = "nohandler",
                                                    !.reported = <<"failJob">>])
                         /\ UNCHANGED <<runs, abandoned>>
            ELSE /\ Goto(p, "loop")
                 /\ SetLoc(p, NoLoc)
                 /\ UNCHANGED <<currentJob, workerStatus, runs, abandoned>>
         /\ UNCHANGED <<poolRunning, running, processedJobs, failedJobs, ret, hvars>>

\* --------------------------------------------------------- JobQueue.add
CallAdd(p, opts) ==
    /\ p \in Clients
    /\ pc[p] = "idle"
    /\ nextId + Cardinality({q \in Clients : pc[q] = "a_llen"}) < NJobs
    /\ Goto(p, "a_llen")
    /\ SetLoc(p, [NoLoc EXCEPT !.job = NewJob(opts), !.delay = opts.delay])
    /\ ret' = [ret EXCEPT ![p] = [op |-> "add", val |-> "pending", id |-> NoId]]
    /\ UNCHANGED <<store, now, capacity, nextId, wvars, runs, abandoned>>

QueueIsFull_gt(queueSize) == queueSize > capacity

QueueIsFull(queueSize) == queueSize >= capacity

AddLlen(p) ==
    /\ pc[p] = "a_llen"
    /\ IF QueueIsFull(Len(waiting))
       THEN /\ ClientReturn(p, "add", "QueueFull", NoId)
            /\ UNCHANGED nextId
       ELSE /\ nextId' = nextId + 1
            /\ SetLoc(p, [loc[p] EXCEPT !.id = nextId + 1])
            /\ Goto(p, "a_set")
            /\ UNCHANGED <<ret, wvars, runs, abandoned>>
    /\ UNCHANGED <<store, now, capacity>>

AddSetJSON(p) ==
    /\ pc[p] = "a_set"
    /\ jobs' = setJSON(loc[p].id, loc[p].job)
    /\ Goto(p, "a_put")
    /\ UNCHANGED <<waiting, delayed, active, completed, failed, now, capacity, nextId, loc,
                   ret, wvars, runs, abandoned>>

addToQueue_rpush(jobId, priority) ==
    IF priority > 0 THEN Append(waiting, jobId) ELSE lpush(jobId)

addToQueue(jobId, priority) ==
    IF priority > 0 THEN lpush(jobId) ELSE lpush(jobId)

AddPut(p) ==
    /\ pc[p] = "a_put"
    /\ IF loc[p].delay > 0
       THEN /\ delayed' = hset(loc[p].id, now + loc[p].delay)
            /\ UNCHANGED waiting
       ELSE /\ waiting' = addToQueue(loc[p].id, loc[p].job.priority)
            /\ UNCHANGED delayed
    /\ ClientReturn(p, "add", "ok", loc[p].id)
    /\ UNCHANGED <<jobs, active, completed, failed, now, capacity, nextId>>

\* -------------------------------------------------- JobQueue.getNextJob
CallGetNextJob(p) ==
    /\ p \in Clients
    /\ pc[p] = "idle"
    /\ Goto(p, "g_lpop")
    /\ ret' = [ret EXCEPT ![p] = [op |-> "getNextJob", val |-> "pending", id |-> NoId]]
    /\ UNCHANGED <<store, now, capacity, nextId, loc, wvars, runs, abandoned>>

GetLpop(p) ==
    /\ pc[p] = "g_lpop"
    /\ IF waiting = <<>>
       THEN /\ Goto(p, "p_hgetall")
            /\ UNCHANGED <<waiting, loc>>
       ELSE /\ waiting' = Tail(waiting)
            /\ SetLoc(p, [loc[p] EXCEPT !.id = Head(waiting)])
            /\ Goto(p, "g_get")
    /\ UNCHANGED <<jobs, delayed, active, completed, failed, now, capacity, nextId, ret,
                   wvars, runs, abandoned>>

GetGetJSON(p) ==
    /\ pc[p] = "g_get"
    /\ IF loc[p].id \in DOMAIN jobs
       THEN /\ SetLoc(p, [loc[p] EXCEPT !.job =
                  [getJSON(loc[p].id) EXCEPT !.status = "active", !.startedAt = TRUE]])
            /\ Goto(p, "g_set")
            /\ UNCHANGED <<ret, wvars, runs, abandoned>>
       ELSE GetNextJobReturn(p, NoId)
    /\ UNCHANGED <<store, now, capacity, nextId>>

GetSetJSON(p) ==
    /\ pc[p] = "g_set"
    /\ jobs' = setJSON(loc[p].id, loc[p].job)
    /\ Goto(p, "g_sadd")
    /\ UNCHANGED <<waiting, delayed, active, completed, failed, now, capacity, nextId, loc,
                   ret, wvars, runs, abandoned>>

GetSadd(p) ==
    /\ pc[p] = "g_sadd"
    /\ active' = active \cup {loc[p].id}
    /\ GetNextJobReturn(p, loc[p].id)
    /\ UNCHANGED <<jobs, waiting, delayed, completed, failed, now, capacity, nextId>>

\* ------------------------------------------- JobQueue.processDelayedJobs
IsReady(delayedUntil, t) == delayedUntil <= t

PromoteHgetall(p) ==
    /\ pc[p] = "p_hgetall"
    /\ LET ready == {id \in DOMAIN delayed : IsReady(delayed[id], now)}
       IN  IF ready = {}
           THEN GetNextJobReturn(p, NoId)
           ELSE /\ SetLoc(p, [loc[p] EXCEPT !.todo = ready])
                /\ Goto(p, "p_get")
                /\ UNCHANGED <<ret, wvars, runs, abandoned>>
    /\ UNCHANGED <<store, now, capacity, nextId>>

PromoteGetJSON(p) ==
    /\ pc[p] = "p_get"
    /\ \E id \in loc[p].todo :
          LET rest == loc[p].todo \ {id}
          IN  IF id \in DOMAIN jobs
              THEN /\ SetLoc(p, [loc[p] EXCEPT !.id = id, !.todo = rest,
                                   !.job = [getJSON(id) EXCEPT !.status = "waiting"]])
                   /\ Goto(p, "p_set")
                   /\ UNCHANGED <<ret, wvars, runs, abandoned>>
              ELSE IF rest = {}
                   THEN GetNextJobReturn(p, NoId)
                   ELSE /\ SetLoc(p, [loc[p] EXCEPT !.todo = rest])
                        /\ UNCHANGED <<pc, ret, wvars, runs, abandoned>>
    /\ UNCHANGED <<store, now, capacity, nextId>>

PromoteSetJSON(p) ==
    /\ pc[p] = "p_set"
    /\ jobs' = setJSON(loc[p].id, loc[p].job)
    /\ Goto(p, "p_push")
    /\ UNCHANGED <<waiting, delayed, active, completed, failed, now, capacity, nextId, loc,
                   ret, wvars, runs, abandoned>>

PromotePush(p) ==
    /\ pc[p] = "p_push"
    /\ waiting' = addToQueue(loc[p].id, loc[p].job.priority)
    /\ Goto(p, "p_del")
    /\ UNCHANGED <<jobs, delayed, active, completed, failed, now, capacity, nextId, loc,
                   ret, wvars, runs, abandoned>>

PromoteHdel(p) ==
    /\ pc[p] = "p_del"
    /\ delayed' = hdel(loc[p].id)
    /\ IF loc[p].todo = {}
       THEN GetNextJobReturn(p, NoId)
       ELSE /\ Goto(p, "p_get")
            /\ UNCHANGED <<loc, ret, wvars, runs, abandoned>>
    /\ UNCHANGED <<jobs, waiting, active, completed, failed, now, capacity, nextId>>

\* ------------------------------------------------- JobQueue.completeJob
CallCompleteJob(p, jobId) ==
    /\ p \in Clients
    /\ pc[p] = "idle"
    /\ Goto(p, "c_get")
    /\ SetLoc(p, [NoLoc EXCEPT !.id = jobId])
    /\ ret' = [ret EXCEPT ![p] = [op |-> "completeJob", val |-> "pending", id |-> jobId]]
    /\ UNCHANGED <<store, now, capacity, nextId, wvars, runs, abandoned>>

Completed_NoResult(job) == [job EXCEPT !.status = "completed", !.completedAt = TRUE]

\* The record completeJob writes back.
Completed(job) == [job EXCEPT !.status = "completed", !.completedAt = TRUE, !.result = TRUE]

CompleteGetJSON(p) ==
    /\ pc[p] = "c_get"
    /\ IF loc[p].id \in DOMAIN jobs
       THEN /\ SetLoc(p, [loc[p] EXCEPT !.job = Completed(getJSON(loc[p].id))])
            /\ Goto(p, "c_set")
            /\ UNCHANGED <<ret, wvars, runs, abandoned>>
       ELSE IF p \in Clients
            THEN ClientReturn(p, "completeJob", "NotFound", loc[p].id)
            ELSE \* processJob's catch: failJob(job.id, error)
                 /\ Goto(p, "f_get")
                 /\ SetLoc(p, [loc[p] EXCEPT !.reported = Append(@, "failJob")])
                 /\ UNCHANGED <<ret, wvars, runs, abandoned>>
    /\ UNCHANGED <<store, now, capacity, nextId>>

CompleteSetJSON(p) ==
    /\ pc[p] = "c_set"
    /\ jobs' = setJSON(loc[p].id, loc[p].job)
    /\ Goto(p, "c_srem")
    /\ UNCHANGED <<waiting, delayed, active, completed, failed, now, capacity, nextId, loc,
                   ret, wvars, runs, abandoned>>

CompleteSrem(p) ==
    /\ pc[p] = "c_srem"
    /\ active' = active \ {loc[p].id}
    /\ Goto(p, "c_sadd")
    /\ UNCHANGED <<jobs, waiting, delayed, completed, failed, now, capacity, nextId, loc,
                   ret, wvars, runs, abandoned>>

CompleteSadd(p) ==
    /\ pc[p] = "c_sadd"
    /\ completed' = completed \cup {loc[p].id}
    /\ IF p \in Clients
       THEN ClientReturn(p, "completeJob", "ok", loc[p].id)
       ELSE WorkerFinish(p, "completed")
    /\ UNCHANGED <<jobs, waiting, delayed, active, failed, now, capacity, nextId>>

\* ----------------------------------------------------- JobQueue.failJob
CallFailJob(p, jobId) ==
    /\ p \in Clients
    /\ pc[p] = "idle"
    /\ Goto(p, "f_get")
    /\ SetLoc(p, [NoLoc EXCEPT !.id = jobId])
    /\ ret' = [ret EXCEPT ![p] = [op |-> "failJob", val |-> "pending", id |-> jobId]]
    /\ UNCHANGED <<store, now, capacity, nextId, wvars, runs, abandoned>>

CanRetry(attempts, maxAttempts) == attempts < maxAttempts

RetryStatus == "waiting"

\* The record failJob writes back: attempts++, error, then retry or give up.
Failed(job) ==
    LET attempts == job.attempts + 1
    IN  IF CanRetry(attempts, job.maxAttempts)
        THEN [job EXCEPT !.attempts = attempts, !.error = TRUE, !.status = RetryStatus]
        ELSE [job EXCEPT !.attempts = attempts, !.error = TRUE, !.status = "failed",
                         !.failedAt = TRUE]

FailGetJSON(p) ==
    /\ pc[p] = "f_get"
    /\ IF loc[p].id \in DOMAIN jobs
       THEN /\ SetLoc(p, [loc[p] EXCEPT !.job = Failed(getJSON(loc[p].id))])
            /\ Goto(p, "f_set")
            /\ UNCHANGED <<ret, wvars, runs, abandoned>>
       ELSE IF p \in Clients
            THEN ClientReturn(p, "failJob", "NotFound", loc[p].id)
            ELSE WorkerFinish(p, "error")
    /\ UNCHANGED <<store, now, capacity, nextId>>

FailSetJSON(p) ==
    /\ pc[p] = "f_set"
    /\ jobs' = setJSON(loc[p].id, loc[p].job)
    /\ Goto(p, "f_srem")
    /\ UNCHANGED <<waiting, delayed, active, completed, failed, now, capacity, nextId, loc,
                   ret, wvars, runs, abandoned>>

FailSrem_skipped(p) ==
    /\ pc[p] = "f_srem"
    /\ Goto(p, "f_put")
    /\ UNCHANGED <<store, now, capacity, nextId, loc, ret, wvars, runs, abandoned>>

FailSrem(p) ==
    /\ pc[p] = "f_srem"
    /\ active' = active \ {loc[p].id}
    /\ Goto(p, "f_put")
    /\ UNCHANGED <<jobs, waiting, delayed, completed, failed, now, capacity, nextId, loc,
                   ret, wvars, runs, abandoned>>

FailPut(p) ==
    /\ pc[p] = "f_put"
    /\ IF loc[p].job.status = "failed"
       THEN /\ failed' = failed \cup {loc[p].id}
            /\ UNCHANGED delayed
       ELSE /\ delayed' = hset(loc[p].id, now + calculateRetryDelay(loc[p].job.attempts))
            /\ UNCHANGED failed
    /\ IF p \in Clients
       THEN ClientReturn(p, "failJob", "ok", loc[p].id)
       ELSE WorkerFinish(p, "failed")
    /\ UNCHANGED <<jobs, waiting, active, completed, now, capacity, nextId>>

\* ------------------------------- JobQueue.cleanCompleted, cleanFailed
\* setJSON writes a record with JSON.stringify, which turns a Date into an
\* ISO string; getJSON reads it with JSON.parse without a reviver, which
\* returns a string as a string.
stringify(type) == IF type = "Date" THEN "string" ELSE type
parse(type) == type

\* What getJob returns for a timestamp a queue method set with new Date().
StoredTimestampType == parse(stringify("Date"))

\* getTime is a method of Date; calling it on a string is a TypeError.
HasGetTime(type) == type = "Date"

CleanOp(part) == IF part = "completed" THEN "cleanCompleted" ELSE "cleanFailed"

CallClean(p, part, olderThanMs) ==
    /\ p \in Clients
    /\ pc[p] = "idle"
    /\ Goto(p, "k_members")
    /\ SetLoc(p, [NoLoc EXCEPT !.part = part, !.delay = olderThanMs])
    /\ ret' = [ret EXCEPT ![p] = [op |-> CleanOp(part), val |-> "pending", id |-> NoId]]
    /\ UNCHANGED <<store, now, capacity, nextId, wvars, runs, abandoned>>

\* The clean call returns its counter (in the id field of ret).
CleanReturn(p, cleaned) == ClientReturn(p, CleanOp(loc[p].part), "count", cleaned)

CleanSmembers(p) ==
    /\ pc[p] = "k_members"
    /\ LET ids == IF loc[p].part = "completed" THEN completed ELSE failed
       IN  IF ids = {}
           THEN CleanReturn(p, 0)
           ELSE /\ SetLoc(p, [loc[p] EXCEPT !.todo = ids,
                                            !.cutoff = now - loc[p].delay])
                /\ Goto(p, "k_get")
                /\ UNCHANGED <<ret, wvars, runs, abandoned>>
    /\ UNCHANGED <<store, now, capacity, nextId>>

\* removeJob: the id leaves the active, completed and failed sets and the
\* delayed hash, and its record is deleted (its commands taken as one step).
removeJob(jobId) ==
    /\ active' = active \ {jobId}
    /\ completed' = completed \ {jobId}
    /\ failed' = failed \ {jobId}
    /\ delayed' = hdel(jobId)
    /\ jobs' = [k \in DOMAIN jobs \ {jobId} |-> jobs[k]]
    /\ UNCHANGED waiting

\* removeJob called by p: getJob first, and nothing more if there is no
\* record; then the removal.
CallRemoveJob(p, jobId) ==
    /\ p \in Clients
    /\ pc[p] = "idle"
    /\ Goto(p, "r_get")
    /\ SetLoc(p, [NoLoc EXCEPT !.id = jobId])
    /\ ret' = [ret EXCEPT ![p] = [op |-> "removeJob", val |-> "pending", id |-> jobId]]
    /\ UNCHANGED <<store, now, capacity, nextId, wvars, runs, abandoned>>

RemoveGetJob(p) ==
    /\ pc[p] = "r_get"
    /\ IF loc[p].id \in DOMAIN jobs
       THEN /\ Goto(p, "r_del")
            /\ UNCHANGED <<loc, ret, wvars, runs, abandoned>>
       ELSE ClientReturn(p, "removeJob", "ok", loc[p].id)
    /\ UNCHANGED <<store, now, capacity, nextId>>

RemoveDelete(p) ==
    /\ pc[p] = "r_del"
    /\ removeJob(loc[p].id)
    /\ ClientReturn(p, "removeJob", "ok", loc[p].id)
    /\ UNCHANGED <<now, capacity, nextId>>

\* getStats: the sizes of the five partitions and their sum.
getStats ==
    [waiting |-> Len(waiting), active |-> Cardinality(active),
     completed |-> Cardinality(completed), failed |-> Cardinality(failed),
     delayed |-> Cardinality(DOMAIN delayed),
     total |-> Len(waiting) + Cardinality(active) + Cardinality(completed)
               + Cardinality(failed) + Cardinality(DOMAIN delayed)]

\* The timestamp the clean call of a partition looks at.
TerminalStamp(job, part) == IF part = "completed" THEN job.completedAt ELSE job.failedAt

\* One turn of the loop over the ids: getJob, then the test
\* job?.completedAt && job.completedAt.getTime() < cutoff.  The timestamp
\* being set, getTime is called on what getJob returned for it; a record
\* keeps no time, so where getTime exists the job may be older than the
\* cutoff or not.
CleanGetJob(p) ==
    /\ pc[p] = "k_get"
    /\ \E id \in loc[p].todo :
          LET rest == loc[p].todo \ {id}
              Continue(n) ==
                  IF rest = {}
                  THEN CleanReturn(p, n)
                  ELSE /\ SetLoc(p, [loc[p] EXCEPT !.todo = rest, !.cleaned = n])
                       /\ UNCHANGED <<pc, ret, wvars, runs, abandoned>>
          IN  IF id \in DOMAIN jobs /\ TerminalStamp(getJSON(id), loc[p].part)
              THEN IF HasGetTime(StoredTimestampType)
                   THEN \E older \in BOOLEAN :
                           IF older
                           THEN removeJob(id) /\ Continue(loc[p].cleaned + 1)
                           ELSE UNCHANGED store /\ Continue(loc[p].cleaned)
                   ELSE /\ ClientReturn(p, CleanOp(loc[p].part), "QueueError", NoId)
                        /\ UNCHANGED store
              ELSE UNCHANGED store /\ Continue(loc[p].cleaned)
    /\ UNCHANGED <<now, capacity, nextId>>

\* ------------------------------------------------------- store failures
InCompleteJob(p) == pc[p] \in {"c_get", "c_set", "c_srem", "c_sadd"}
InFailJob(p) == pc[p] \in {"f_get", "f_set", "f_srem", "f_put"}

\* The store command completeJob or failJob is about to issue fails: the
\* method throws.  A client sees the error.  In a worker, an error of
\* completeJob lands in processJob's catch, which calls failJob; an error of
\* failJob leaves processJob and is caught by processLoop.
StoreError(p) ==
    /\ InCompleteJob(p) \/ InFailJob(p)
    /\ IF p \in Clients
       THEN ClientReturn(p, IF InCompleteJob(p) THEN "completeJob" ELSE "failJob",
                         "StoreError", loc[p].id)
       ELSE IF InCompleteJob(p)
            THEN /\ Goto(p, "f_get")
                 /\ SetLoc(p, [loc[p] EXCEPT !.reported = Append(@, "failJob")])
                 /\ UNCHANGED <<ret, wvars, runs, abandoned>>
            ELSE WorkerFinish(p, "error")
    /\ UNCHANGED <<store, now, capacity, nextId>>

InGetNextJob(p) == pc[p] \in {"g_lpop", "g_get", "g_set", "g_sadd"}
InPromote(p) == pc[p] \in {"p_hgetall", "p_get", "p_set", "p_push", "p_del"}

\* processLoop's catch: status "error", the longer sleep, then the next turn
\* of the loop.
LoopCatch_break(w) ==
    /\ workerStatus' = [workerStatus EXCEPT ![w] = "error"]
    /\ running' = [running EXCEPT ![w] = FALSE]
    /\ Goto(w, "exited")
    /\ SetLoc(w, NoLoc)
    /\ UNCHANGED <<poolRunning, processedJobs, failedJobs, currentJob, ret, runs, abandoned, hvars>>

LoopCatch(w) ==
    /\ workerStatus' = [workerStatus EXCEPT ![w] = "error"]
    /\ Goto(w, "loop")
    /\ SetLoc(w, NoLoc)
    /\ UNCHANGED <<poolRunning, running, processedJobs, failedJobs, currentJob, ret,
                   runs, abandoned, hvars>>

\* The store command getNextJob is about to issue fails.  processDelayedJobs
\* logs the error and getNextJob returns null; a command of getNextJob itself
\* makes it throw a QueueError, which a client sees and which in a worker is
\* caught by processLoop.
PollError(p) ==
    /\ InGetNextJob(p) \/ InPromote(p)
    /\ IF InPromote(p)
       THEN GetNextJobReturn(p, NoId)
       ELSE IF p \in Clients
            THEN ClientReturn(p, "getNextJob", "StoreError", NoId)
            ELSE LoopCatch(p)
    /\ UNCHANGED <<store, now, capacity, nextId>>

InAdd(p) == pc[p] \in {"a_llen", "a_set", "a_put"}

\* The store command add is about to issue fails: llen is outside add's try
\* and its error leaves add as it is, an error of setJSON, hset or lpush is
\* rethrown as a QueueError.  Either way the caller sees add fail, and what
\* add wrote before stays.
AddError(p) ==
    /\ InAdd(p)
    /\ ClientReturn(p, "add", "StoreError", NoId)
    /\ UNCHANGED <<store, now, capacity, nextId>>

\* ------------------------------------------------------ WorkerPool, Worker
\* WorkerPool.start: every worker is created, given the handlers registered
\* on the pool so far, and started; each enters processLoop.
PoolStart ==
    /\ ~poolRunning
    /\ poolRunning' = TRUE
    /\ running' = [w \in Workers |-> TRUE]
    /\ workerStatus' = [w \in Workers |-> "idle"]
    /\ workerHandlers' = [w \in Workers |-> poolHandlers]
    /\ pc' = [p \in Procs |-> IF p \in Workers THEN "loop" ELSE pc[p]]
    /\ UNCHANGED <<store, now, capacity, nextId, loc, ret, processedJobs, failedJobs,
                   currentJob, runs, abandoned, poolHandlers>>

ReachedMaxJobs(n) == n >= maxJobsPerWorker

\* One turn of processLoop's while: leave when not running, retire (stop())
\* at the job limit, else call getNextJob.
WorkerLoop(w) ==
    /\ w \in Workers
    /\ pc[w] = "loop"
    /\ IF ~running[w]
       THEN /\ Goto(w, "exited")
            /\ UNCHANGED <<running, workerStatus>>
       ELSE IF ReachedMaxJobs(processedJobs[w])
            THEN /\ running' = [running EXCEPT ![w] = FALSE]
                 /\ workerStatus' = [workerStatus EXCEPT ![w] = "stopped"]
                 /\ Goto(w, "exited")
            ELSE /\ Goto(w, "g_lpop")
                 /\ UNCHANGED <<running, workerStatus>>
    /\ UNCHANGED <<store, now, capacity, nextId, loc, ret, poolRunning, processedJobs,
                   failedJobs, currentJob, runs, abandoned, hvars>>

\* processJob takes the timeout from the configuration, for every job.
timeoutMs(job) == jobTimeout

\* When the timer executeWithTimeout set for w's handler fires.
Deadline(w) == loc[w].timer + timeoutMs(loc[w].job)

\* The handler returns before the timer fires: completeJob(job.id, result).
HandlerReturns(w) ==
    /\ w \in Workers
    /\ pc[w] = "handler"
    /\ now <= Deadline(w)
    /\ Goto(w, "c_get")
    /\ SetLoc(w, [loc[w] EXCEPT !.timer = 0, !.outcome = "returned",
                               !.reported = <<"completeJob">>])
    /\ UNCHANGED <<store, now, capacity, nextId, ret, wvars, runs, abandoned>>

\* The handler throws before the timer fires: failJob(job.id, error).
HandlerThrows(w) ==
    /\ w \in Workers
    /\ pc[w] = "handler"
    /\ now <= Deadline(w)
    /\ Goto(w, "f_get")
    /\ SetLoc(w, [loc[w] EXCEPT !.timer = 0, !.outcome = "threw",
                               !.reported = <<"failJob">>])
    /\ UNCHANGED <<store, now, capacity, nextId, ret, wvars, runs, abandoned>>

\* The timer fires first: executeWithTimeout rejects with a TimeoutError,
\* failJob(job.id, error).
HandlerTimeout(w) ==
    /\ w \in Workers
    /\ pc[w] = "handler"
    /\ now >= Deadline(w)
    /\ Goto(w, "f_get")
    /\ SetLoc(w, [loc[w] EXCEPT !.timer = 0, !.outcome = "timeout",
                               !.reported = <<"failJob">>])
    /\ abandoned' = [abandoned EXCEPT ![loc[w].id] = @ + 1]
    /\ UNCHANGED <<store, now, capacity, nextId, ret, wvars, runs>>

\* The promise of handler(job) that lost the race of executeWithTimeout is not
\* cancelled: the invocation goes on after the worker has moved on, and ends
\* whenever the handler's own code ends, if ever.
AbandonedHandlerEnds(j) ==
    /\ j \in JobIds
    /\ abandoned[j] > 0
    /\ abandoned' = [abandoned EXCEPT ![j] = @ - 1]
    /\ UNCHANGED <<store, now, capacity, nextId, pc, loc, ret, wvars, runs>>

\* ------------------------------------------- WorkerPool.stop, Worker.stop
StopWaits_unbounded(w, startTime, t) == currentJob[w] # NoId

\* The condition of Worker.stop's loop at time t: the worker holds a job and
\* less than maxWaitTime has passed since stop was called at startTime.
StopWaits(w, startTime, t) == currentJob[w] # NoId /\ t - startTime < maxWaitTime

\* WorkerPool.stop called by p.  On a pool that is not running it returns at
\* once.  Otherwise it clears the pool's running flag and calls stop on every
\* worker: each clears its running flag, sets its status to "stopped" and,
\* holding a job, goes to sleep (loc[p].todo: the workers whose stop sleeps,
\* loc[p].timer: when stop was called).
CallPoolStop(p) ==
    /\ p \in Clients
    /\ pc[p] = "idle"
    /\ IF ~poolRunning
       THEN /\ ret' = [ret EXCEPT ![p] = [op |-> "stop", val |-> "notRunning", id |-> NoId]]
            /\ UNCHANGED <<pc, loc, poolRunning, running, workerStatus>>
       ELSE /\ poolRunning' = FALSE
            /\ running' = [w \in Workers |-> FALSE]
            /\ workerStatus' = [w \in Workers |-> "stopped"]
            /\ Goto(p, "s_wait")
            /\ SetLoc(p, [NoLoc EXCEPT !.timer = now,
                                       !.todo = {w \in Workers : StopWaits(w, now, now)}])
            /\ ret' = [ret EXCEPT ![p] = [op |-> "stop", val |-> "pending", id |-> NoId]]
    /\ UNCHANGED <<store, now, capacity, nextId, processedJobs, failedJobs, currentJob,
                   runs, abandoned, hvars>>

\* The stop calls of the workers go on: none sleeping any more, Promise.all
\* resolves and WorkerPool.stop returns; otherwise the sleep of stopPollMs
\* elapses and each sleeping stop tests its loop condition again.
StopPoll(p) ==
    /\ pc[p] = "s_wait"
    /\ IF loc[p].todo = {}
       THEN /\ ClientReturn(p, "stop", "ok", NoId)
            /\ UNCHANGED now
       ELSE /\ now' = now + stopPollMs
            /\ SetLoc(p, [loc[p] EXCEPT !.todo =
                    {w \in loc[p].todo : StopWaits(w, loc[p].timer, now + stopPollMs)}])
            /\ UNCHANGED <<pc, ret, wvars, runs, abandoned>>
    /\ UNCHANGED <<store, capacity, nextId>>

\* WorkerPool.getStats().workers filtered by isHealthy: the workers whose
\* status is neither "error" nor "stopped".
healthyWorkers ==
    Cardinality({w \in Workers : workerStatus[w] # "error" /\ workerStatus[w] # "stopped"})

AtLeastHalf_more(n) == 2 * n > poolSize

\* healthyWorkers >= this.poolSize * 0.5
AtLeastHalf(n) == 2 * n >= poolSize

\* WorkerPool.isHealthy.  A pool that runs has all its workers in its map.
isHealthy == IF ~poolRunning THEN FALSE ELSE AtLeastHalf(healthyWorkers)

\* p calls isHealthy, which returns without awaiting anything.
CallIsHealthy(p) ==
    /\ p \in Clients
    /\ pc[p] = "idle"
    /\ ret' = [ret EXCEPT ![p] = [op |-> "isHealthy",
                                  val |-> IF isHealthy THEN "true" ELSE "false",
                                  id |-> NoId]]
    /\ UNCHANGED <<store, now, capacity, nextId, pc, loc, wvars, runs, abandoned>>

\* ----------------------------------------------------------------- clock
Tick ==
    /\ now < MaxTicks * TickMs
    /\ now' = now + TickMs
    /\ UNCHANGED <<store, capacity, nextId, pc, loc, ret, wvars, runs, abandoned>>

\* The clock advances to the deadline of the next timer; a timer that is
\* due fires before time moves on.
TimerElapses ==
    /\ \A w \in Workers : pc[w] = "handler" => Deadline(w) > now
    /\ \E w \in Workers :
          /\ pc[w] = "handler"
          /\ \A v \in Workers : pc[v] = "handler" => Deadline(w) <= Deadline(v)
          /\ now' = Deadline(w)
    /\ UNCHANGED <<store, capacity, nextId, pc, loc, ret, wvars, runs, abandoned>>

\* The clock advances to the next ready-time in the delayed hash.
Sleep ==
    /\ \E id \in DOMAIN delayed :
          /\ delayed[id] > now
          /\ \A k \in DOMAIN delayed : delayed[k] > now => delayed[id] <= delayed[k]
          /\ now' = delayed[id]
    /\ UNCHANGED <<store, capacity, nextId, pc, loc, ret, wvars, runs, abandoned>>

\* --------------------------------------------------------- specifications
\* The steps of whatever queue call p is in.
QueueStep(p) ==
    \/ AddLlen(p) \/ AddSetJSON(p) \/ AddPut(p)
    \/ GetLpop(p) \/ GetGetJSON(p) \/ GetSetJSON(p) \/ GetSadd(p)
    \/ PromoteHgetall(p) \/ PromoteGetJSON(p) \/ PromoteSetJSON(p)
    \/ PromotePush(p) \/ PromoteHdel(p)
    \/ CompleteGetJSON(p) \/ CompleteSetJSON(p) \/ CompleteSrem(p) \/ CompleteSadd(p)
    \/ FailGetJSON(p) \/ FailSetJSON(p) \/ FailSrem(p) \/ FailPut(p)

\* No queue call is in progress.
Quiescent == \A p \in Procs : pc[p] \in {"idle", "new", "loop", "handler", "exited"}

\* Spec: the queue API called directly, one call at a time, in any order
\* and with any arguments.
ApiAdd(p) == Quiescent /\ \E opts \in Options : CallAdd(p, opts)
ApiGetNextJob(p) == Quiescent /\ CallGetNextJob(p)
ApiCompleteJob(p) == Quiescent /\ \E j \in JobIds : CallCompleteJob(p, j)
ApiFailJob(p) ==
    /\ Quiescent
    /\ \E j \in JobIds :
          /\ j \in DOMAIN jobs => jobs[j].attempts < MaxFails
          /\ CallFailJob(p, j)

Next ==
    \/ Tick
    \/ \E p \in Clients :
          ApiAdd(p) \/ ApiGetNextJob(p) \/ ApiCompleteJob(p) \/ ApiFailJob(p)
    \/ \E p \in Clients : QueueStep(p)

Spec == Init /\ [][Next]_vars

\* SpecPool: a started pool of workers and producers calling add, every
\* call interleaving with the others at each awaited store command.
NextPool ==
    \/ Tick
    \/ PoolStart
    \/ \E p \in Clients : \E opts \in PoolOptions : CallAdd(p, opts)
    \/ \E w \in Workers : WorkerLoop(w) \/ HandlerReturns(w) \/ HandlerThrows(w)
    \/ \E p \in Procs : QueueStep(p)

SpecPool == Init /\ [][NextPool]_vars

\* SpecOrder: producers add jobs without delay to a queue of capacity
\* WideMaxJobs and consumers call getNextJob, one call at a time.
InitOrder == InitWith(WideMaxJobs)

ApiAddNow(p) == Quiescent /\ \E opts \in OrderOptions : CallAdd(p, opts)

NextOrder ==
    \/ \E p \in Clients : ApiAddNow(p) \/ ApiGetNextJob(p)
    \/ \E p \in Clients :
          \/ AddLlen(p) \/ AddSetJSON(p) \/ AddPut(p)
          \/ GetLpop(p) \/ GetGetJSON(p) \/ GetSetJSON(p) \/ GetSadd(p)
          \/ PromoteHgetall(p)

SpecOrder == InitOrder /\ [][NextOrder]_vars

\* SpecRetry: jobs with BackoffAttempts attempts are added, taken with
\* getNextJob and failed by their consumer, one call at a time; the clock
\* moves on to the ready-time of each retry.
ApiAddRetried(p) == Quiescent /\ \E opts \in RetryOptions : CallAdd(p, opts)
ApiFailActive(p) == Quiescent /\ \E j \in active : CallFailJob(p, j)

NextRetry ==
    \/ Sleep
    \/ \E p \in Clients : ApiAddRetried(p) \/ ApiGetNextJob(p) \/ ApiFailActive(p)
    \/ \E p \in Clients :
          \/ AddLlen(p) \/ AddSetJSON(p) \/ AddPut(p)
          \/ GetLpop(p) \/ GetGetJSON(p) \/ GetSetJSON(p) \/ GetSadd(p)
          \/ PromoteHgetall(p) \/ PromoteGetJSON(p) \/ PromoteSetJSON(p)
          \/ PromotePush(p) \/ PromoteHdel(p)
          \/ FailGetJSON(p) \/ FailSetJSON(p) \/ FailSrem(p) \/ FailPut(p)

SpecRetry == Init /\ [][NextRetry]_vars

\* SpecBaseDelay: as SpecRetry, the jobs being added with the retryDelay
\* option.
ApiAddWithBase(p) == Quiescent /\ \E opts \in BaseDelayOptions : CallAdd(p, opts)

NextBaseDelay ==
    \/ Sleep
    \/ \E p \in Clients : ApiAddWithBase(p) \/ ApiGetNextJob(p) \/ ApiFailActive(p)
    \/ \E p \in Clients :
          \/ AddLlen(p) \/ AddSetJSON(p) \/ AddPut(p)
          \/ GetLpop(p) \/ GetGetJSON(p) \/ GetSetJSON(p) \/ GetSadd(p)
          \/ PromoteHgetall(p) \/ PromoteGetJSON(p) \/ PromoteSetJSON(p)
          \/ PromotePush(p) \/ PromoteHdel(p)
          \/ FailGetJSON(p) \/ FailSetJSON(p) \/ FailSrem(p) \/ FailPut(p)

SpecBaseDelay == Init /\ [][NextBaseDelay]_vars

\* SpecFaulty: a started pool whose producers add one-attempt jobs with a
\* timeout option; a handler returns, throws or outlasts its timer, and a
\* store command of completeJob or failJob may fail.
NextFaulty ==
    \/ PoolStart
    \/ TimerElapses
    \/ \E p \in Clients : \E opts \in FaultyOptions : CallAdd(p, opts)
    \/ \E w \in Workers :
          WorkerLoop(w) \/ HandlerReturns(w) \/ HandlerThrows(w) \/ HandlerTimeout(w)
    \/ \E p \in Procs :
          \/ AddLlen(p) \/ AddSetJSON(p) \/ AddPut(p)
          \/ GetLpop(p) \/ GetGetJSON(p) \/ GetSetJSON(p) \/ GetSadd(p)
          \/ PromoteHgetall(p)
          \/ CompleteGetJSON(p) \/ CompleteSetJSON(p) \/ CompleteSrem(p)
          \/ CompleteSadd(p)
          \/ FailGetJSON(p) \/ FailSetJSON(p) \/ FailSrem(p) \/ FailPut(p)
          \/ StoreError(p)

SpecFaulty == Init /\ [][NextFaulty]_vars

\* SpecOrphan: a started pool whose producers add jobs no handler is
\* registered for.
NextOrphan ==
    \/ Tick
    \/ PoolStart
    \/ \E p \in Clients : \E opts \in OrphanOptions : CallAdd(p, opts)
    \/ \E w \in Workers : WorkerLoop(w)
    \/ \E p \in Procs :
          \/ AddLlen(p) \/ AddSetJSON(p) \/ AddPut(p)
          \/ GetLpop(p) \/ GetGetJSON(p) \/ GetSetJSON(p) \/ GetSadd(p)
          \/ PromoteHgetall(p) \/ PromoteGetJSON(p) \/ PromoteSetJSON(p)
          \/ PromotePush(p) \/ PromoteHdel(p)
          \/ FailGetJSON(p) \/ FailSetJSON(p) \/ FailSrem(p) \/ FailPut(p)

SpecOrphan == Init /\ [][NextOrphan]_vars

\* SpecClean: one-attempt jobs are added, taken, completed or failed by
\* their consumer, and cleanCompleted and cleanFailed are called, one call
\* at a time.
ApiAddPlain(p) == Quiescent /\ \E opts \in CleanOptions : CallAdd(p, opts)
ApiCompleteActive(p) == Quiescent /\ \E j \in active : CallCompleteJob(p, j)
ApiClean(p) ==
    /\ Quiescent
    /\ \E part \in {"completed", "failed"} : \E olderThanMs \in {0, TickMs} :
          CallClean(p, part, olderThanMs)

NextClean ==
    \/ Tick
    \/ \E p \in Clients :
          \/ ApiAddPlain(p) \/ ApiGetNextJob(p) \/ ApiCompleteActive(p)
          \/ ApiFailActive(p) \/ ApiClean(p)
    \/ \E p \in Clients :
          \/ AddLlen(p) \/ AddSetJSON(p) \/ AddPut(p)
          \/ GetLpop(p) \/ GetGetJSON(p) \/ GetSetJSON(p) \/ GetSadd(p)
          \/ PromoteHgetall(p)
          \/ CompleteGetJSON(p) \/ CompleteSetJSON(p) \/ CompleteSrem(p)
          \/ CompleteSadd(p)
          \/ FailGetJSON(p) \/ FailSetJSON(p) \/ FailSrem(p) \/ FailPut(p)
          \/ CleanSmembers(p) \/ CleanGetJob(p)

SpecClean == Init /\ [][NextClean]_vars

\* SpecStop: a pool is started once and stopped; producers add one-attempt
\* jobs, handlers return or throw, and callers ask isHealthy.
PoolStartFirst == (\A w \in Workers : pc[w] = "new") /\ PoolStart

WorkerStep(w) ==
    \/ WorkerLoop(w) \/ HandlerReturns(w) \/ HandlerThrows(w)
    \/ GetLpop(w) \/ GetGetJSON(w) \/ GetSetJSON(w) \/ GetSadd(w)
    \/ PromoteHgetall(w)
    \/ CompleteGetJSON(w) \/ CompleteSetJSON(w) \/ CompleteSrem(w) \/ CompleteSadd(w)
    \/ FailGetJSON(w) \/ FailSetJSON(w) \/ FailSrem(w) \/ FailPut(w)

NextStop ==
    \/ PoolStartFirst
    \/ \E p \in Clients : \E opts \in CleanOptions : CallAdd(p, opts)
    \/ \E p \in Clients : AddLlen(p) \/ AddSetJSON(p) \/ AddPut(p)
    \/ \E p \in Clients : CallPoolStop(p) \/ StopPoll(p) \/ CallIsHealthy(p)
    \/ \E w \in Workers : WorkerStep(w)

SpecStop == Init /\ [][NextStop]_vars

\* A worker's loop and the calls it awaits go on: the event loop runs every
\* continuation that is ready, and executeWithTimeout ends a handler that
\* does not end by itself.
SpecStopFair == SpecStop /\ \A w \in Workers : WF_vars(WorkerStep(w))

\* SpecLive: a pool is started once and stopped; producers add one-attempt
\* jobs; no handler ends by itself, each outlasts its timer.  While a stop
\* call sleeps, time advances by its sleeps.
TimerElapsesOutsideStop ==
    /\ \A p \in Clients : pc[p] = "s_wait" => loc[p].todo = {}
    /\ TimerElapses

WorkerRun(w) ==
    \/ WorkerLoop(w) \/ HandlerTimeout(w)
    \/ GetLpop(w) \/ GetGetJSON(w) \/ GetSetJSON(w) \/ GetSadd(w)
    \/ PromoteHgetall(w)
    \/ FailGetJSON(w) \/ FailSetJSON(w) \/ FailSrem(w) \/ FailPut(w)

NextLive ==
    \/ PoolStartFirst
    \/ TimerElapsesOutsideStop
    \/ \E p \in Clients : \E opts \in FaultyOptions : CallAdd(p, opts)
    \/ \E p \in Clients : AddLlen(p) \/ AddSetJSON(p) \/ AddPut(p)
    \/ \E p \in Clients : CallPoolStop(p) \/ StopPoll(p)
    \/ \E w \in Workers : WorkerRun(w)

SpecLive == Init /\ [][NextLive]_vars

\* A worker's loop and the calls it awaits go on (the store is available),
\* and time passes: a sleeping stop call wakes up and a timer that was set
\* comes due.
SpecLiveFair ==
    /\ SpecLive
    /\ \A w \in Workers : WF_vars(WorkerRun(w))
    /\ \A p \in Clients : WF_vars(StopPoll(p))
    /\ WF_vars(TimerElapsesOutsideStop)

\* SpecHealth: SpecStop with a store that may fail a command of completeJob
\* or failJob.
NextHealth ==
    \/ NextStop
    \/ \E w \in Workers : StoreError(w)

SpecHealth == Init /\ [][NextHealth]_vars

\* SpecOutage: a started pool, producers adding one-attempt jobs, and a store
\* that may fail any command of getNextJob, completeJob and failJob.
WorkerStepOrError(w) == WorkerStep(w) \/ PollError(w) \/ StoreError(w)

NextOutage ==
    \/ PoolStart
    \/ \E p \in Clients : \E opts \in CleanOptions : CallAdd(p, opts)
    \/ \E p \in Clients : AddLlen(p) \/ AddSetJSON(p) \/ AddPut(p)
    \/ \E w \in Workers : WorkerStepOrError(w)

SpecOutage == Init /\ [][NextOutage]_vars

\* Every command a worker issues ends, in success or in an error, and the
\* store does not fail the poll's lpop for ever: it is available again.
SpecOutageFair ==
    SpecOutage /\ \A w \in Workers : WF_vars(WorkerStepOrError(w)) /\ SF_vars(GetLpop(w))

\* SpecRegister: handlers are registered on a pool that starts with none,
\* before and after it is started; producers add one-attempt jobs of either
\* name.
InitRegister == InitPool(maxJobs, {})

NextRegister ==
    \/ \E jobName \in JobNames : registerHandler(jobName)
    \/ PoolStart
    \/ \E p \in Clients : \E opts \in NamedOptions : CallAdd(p, opts)
    \/ \E p \in Clients : AddLlen(p) \/ AddSetJSON(p) \/ AddPut(p)
    \/ \E w \in Workers : WorkerStep(w)

SpecRegister == InitRegister /\ [][NextRegister]_vars

\* SpecStarve: producers add jobs, delayed or not, and consumers call
\* getNextJob, one call at a time; the clock moves between the calls.
TickBetweenCalls == Quiescent /\ Tick

NextStarve ==
    \/ TickBetweenCalls
    \/ \E p \in Clients : ApiAdd(p) \/ ApiGetNextJob(p)
    \/ \E p \in Clients :
          \/ AddLlen(p) \/ AddSetJSON(p) \/ AddPut(p)
          \/ GetLpop(p) \/ GetGetJSON(p) \/ GetSetJSON(p) \/ GetSadd(p)
          \/ PromoteHgetall(p) \/ PromoteGetJSON(p) \/ PromoteSetJSON(p)
          \/ PromotePush(p) \/ PromoteHdel(p)

SpecStarve == Init /\ [][NextStarve]_vars

\* SpecAbandon: a started pool whose
\* handlers outlast the timer of executeWithTimeout; a job that timed out is retried after its backoff, and
\* the invocation the timer gave up on ends at any later time, or never.
WorkerTry(w) ==
    \/ WorkerLoop(w) \/ HandlerTimeout(w)
    \/ GetLpop(w) \/ GetGetJSON(w) \/ GetSetJSON(w) \/ GetSadd(w)
    \/ PromoteHgetall(w) \/ PromoteGetJSON(w) \/ PromoteSetJSON(w)
    \/ PromotePush(w) \/ PromoteHdel(w)
    \/ FailGetJSON(w) \/ FailSetJSON(w) \/ FailSrem(w) \/ FailPut(w)

\* Time passes while no worker is in the middle of a queue call.
BetweenCalls == \A w \in Workers : pc[w] \in {"new", "loop", "handler", "exited"}
TimerElapsesBetweenCalls == BetweenCalls /\ TimerElapses
SleepBetweenCalls == BetweenCalls /\ Sleep

NextAbandon ==
    \/ PoolStartFirst
    \/ TimerElapsesBetweenCalls
    \/ SleepBetweenCalls
    \/ \E p \in Clients : \E opts \in TwiceOptions : CallAdd(p, opts)
    \/ \E p \in Clients : AddLlen(p) \/ AddSetJSON(p) \/ AddPut(p)
    \/ \E w \in Workers : WorkerTry(w)
    \/ \E j \in JobIds : AbandonedHandlerEnds(j)

SpecAbandon == Init /\ [][NextAbandon]_vars

\* SpecStoreFault: jobs are added to a queue of capacity WideMaxJobs and
\* taken with getNextJob, one call at a time; any store command of either
\* call may fail.
NextStoreFault ==
    \/ \E p \in Clients : ApiAddPlain(p) \/ ApiGetNextJob(p)
    \/ \E p \in Clients :
          \/ AddLlen(p) \/ AddSetJSON(p) \/ AddPut(p)
          \/ GetLpop(p) \/ GetGetJSON(p) \/ GetSetJSON(p) \/ GetSadd(p)
          \/ PromoteHgetall(p)
          \/ AddError(p) \/ PollError(p)

SpecStoreFault == InitOrder /\ [][NextStoreFault]_vars

\* SpecRemove: jobs are added, delayed or not, to a queue of capacity
\* WideMaxJobs, taken with getNextJob and removed with removeJob, one call
\* at a time.
ApiRemoveJob(p) == Quiescent /\ \E j \in JobIds : CallRemoveJob(p, j)

NextRemove ==
    \/ TickBetweenCalls
    \/ \E p \in Clients : ApiAdd(p) \/ ApiGetNextJob(p) \/ ApiRemoveJob(p)
    \/ \E p \in Clients :
          \/ AddLlen(p) \/ AddSetJSON(p) \/ AddPut(p)
          \/ GetLpop(p) \/ GetGetJSON(p) \/ GetSetJSON(p) \/ GetSadd(p)
          \/ PromoteHgetall(p) \/ PromoteGetJSON(p) \/ PromoteSetJSON(p)
          \/ PromotePush(p) \/ PromoteHdel(p)
          \/ RemoveGetJob(p) \/ RemoveDelete(p)

SpecRemove == InitOrder /\ [][NextRemove]_vars

\* ------------------------------------------------------------ properties
\* How often id j stands in the waiting list, and in how many partitions
\* (counting each occurrence in the list) it is.
InWaiting(j) == Cardinality({i \in 1..Len(waiting) : waiting[i] = j})
B2N(b) == IF b THEN 1 ELSE 0
Memberships(j) ==
    InWaiting(j) + B2N(j \in DOMAIN delayed) + B2N(j \in active)
    + B2N(j \in completed) + B2N(j \in failed)

\* The partitions that hold j, by the status each stands for.
PartitionsOf(j) ==
    {s \in {"waiting", "delayed", "active", "completed", "failed"} :
        \/ s = "waiting" /\ InWaiting(j) > 0
        \/ s = "delayed" /\ j \in DOMAIN delayed
        \/ s = "active" /\ j \in active
        \/ s = "completed" /\ j \in completed
        \/ s = "failed" /\ j \in failed}

\* C1: a job id is never handed to a second worker while another worker
\* still holds it: at no time do two workers run the handler of the same job.
C1_ExactlyOnceInFlight ==
    \A j \in JobIds :
        Cardinality({w \in Workers : currentJob[w] = j /\ pc[w] = "handler"}) <= 1

\* C2: whenever no queue call is in progress, every job with a record is in
\* exactly one partition, and at most once in the waiting list.
C2_ExactlyOnePartition ==
    Quiescent => \A j \in DOMAIN jobs : Memberships(j) = 1

\* C3: whenever no queue call is in progress, the status of every job names
\* the partition that holds it; so a job failJob sent to retry is in the
\* delayed partition with status "delayed".
C3_StatusNamesPartition ==
    Quiescent => \A j \in DOMAIN jobs : PartitionsOf(j) = {jobs[j].status}

\* The status changes of the state machine.
AllowedTransitions ==
    {<<"waiting", "active">>, <<"active", "completed">>, <<"active", "delayed">>,
     <<"active", "failed">>, <<"delayed", "waiting">>}

\* A step of completeJob or failJob that writes the record of j.
WritesOutcome(p, j) == pc[p] \in {"c_set", "f_set"} /\ loc[p].id = j /\ pc'[p] # pc[p]

\* C4: every change of a job's status is a transition of the state machine,
\* a completed or failed job keeps its status, and completeJob and failJob
\* leave the record of a job that is not active as it is.
C4_OnlyStateMachineTransitions ==
    [][\A j \in DOMAIN jobs :
          /\ jobs'[j].status # jobs[j].status
                => <<jobs[j].status, jobs'[j].status>> \in AllowedTransitions
          /\ \A p \in Procs :
                WritesOutcome(p, j) /\ jobs[j].status # "active" => jobs'[j] = jobs[j]]_vars

\* C5: attempts <= maxAttempts for every job in every reachable state.
C5_AttemptsBounded ==
    \A j \in DOMAIN jobs : jobs[j].attempts <= jobs[j].maxAttempts

\* C6: whenever no queue call is in progress, a job of status "failed" has
\* attempts = maxAttempts, has failedAt and error set, is in the failed set
\* and is not in the active set.
C6_FailedJobShape ==
    Quiescent =>
        \A j \in DOMAIN jobs :
            jobs[j].status = "failed" =>
                /\ jobs[j].attempts = jobs[j].maxAttempts
                /\ jobs[j].failedAt
                /\ jobs[j].error
                /\ j \in failed
                /\ j \notin active

\* No handler invocation of j has returned: none is completing j, none has.
AlwaysThrew(j) ==
    /\ j \notin completed
    /\ \A w \in Workers :
          ~(loc[w].id = j /\ pc[w] \in {"c_get", "c_set", "c_srem", "c_sadd"})

\* C7: a job whose handler always throws is run at most maxAttempts times,
\* and once it is failed (no queue call in progress) it has run exactly
\* maxAttempts times and attempts = maxAttempts.
C7_RunsExactlyMaxAttempts ==
    \A j \in DOMAIN jobs :
        AlwaysThrew(j) =>
            /\ runs[j] <= jobs[j].maxAttempts
            /\ Quiescent /\ jobs[j].status = "failed"
                  => runs[j] = jobs[j].maxAttempts
                     /\ jobs[j].attempts = jobs[j].maxAttempts

\* C8: add, finding the waiting list at or above maxJobs, throws the
\* queue-full error, generates no id and leaves the store as it is.
C8_QueueFullRejects ==
    [][\A p \in Clients :
          pc[p] = "a_llen" /\ pc'[p] # "a_llen" /\ Len(waiting) >= maxJobs
             => /\ ret'[p] = [op |-> "add", val |-> "QueueFull", id |-> NoId]
                /\ pc'[p] = "idle"
                /\ store' = store
                /\ nextId' = nextId]_vars

\* An add has been rejected and the waiting list is still at capacity.
C8_Witness ==
    \E p \in Clients :
        /\ ret[p] = [op |-> "add", val |-> "QueueFull", id |-> NoId]
        /\ Len(waiting) >= maxJobs
        /\ DOMAIN jobs = 1..nextId

\* C9: the waiting list never holds more than maxJobs ids.
C9_BoundedCapacity == Len(waiting) <= maxJobs

\* C10: getNextJob does not return a job that is in the delayed partition
\* with a ready-time later than now.
C10_NotBeforeReadyTime ==
    [][\A p \in Procs :
          pc[p] = "g_sadd" /\ pc'[p] # "g_sadd"
             => ~(loc[p].id \in DOMAIN delayed /\ delayed[loc[p].id] > now)]_vars

\* C11: a getNextJob call that found the waiting list empty and promoted a
\* delayed job whose ready-time had passed returns a job in that same call:
\* it does not come back with null.
C11_PromotedJobReturned ==
    [][\A p \in Clients :
          pc[p] = "p_del" /\ pc'[p] = "idle"
             => ret'[p].op = "getNextJob" /\ ret'[p].val = "job"]_vars

\* getNextJob's last step, which returns the job it popped (loc[p].id).
ReturnsJob(p) == pc[p] = "g_sadd" /\ pc'[p] # "g_sadd"

\* The ids still in the waiting list that were added before id b.
WaitingAddedBefore(b) == {waiting[i] : i \in 1..Len(waiting)} \cap 1..(b - 1)

\* The ids still in the waiting list that were added after id a.
WaitingAddedAfter(a) == {waiting[i] : i \in 1..Len(waiting)} \cap (a + 1)..NJobs

\* C12: a job B of priority > 0 added (without delay) while jobs of priority
\* 0 are waiting is returned before them: getNextJob never returns a
\* priority-0 job while a priority > 0 job added after it is still waiting.
C12_PriorityJumpsAhead ==
    [][\A p \in Clients :
          ReturnsJob(p) /\ loc[p].job.priority = 0
             => \A b \in WaitingAddedAfter(loc[p].id) : jobs[b].priority = 0]_vars

\* getNextJob is about to return a priority > 0 job it popped while a
\* priority-0 job that was added before it is still waiting.
C12_Witness ==
    \E p \in Clients :
        /\ pc[p] = "g_sadd"
        /\ loc[p].job.priority > 0
        /\ \E a \in WaitingAddedBefore(loc[p].id) : jobs[a].priority = 0

\* C13: two priority-0 jobs added one after the other (without delay) are
\* returned in the order they were added: getNextJob never returns a
\* priority-0 job while a priority-0 job added before it is still waiting.
C13_InsertionOrder ==
    [][\A p \in Clients :
          ReturnsJob(p) /\ loc[p].job.priority = 0
             => \A a \in WaitingAddedBefore(loc[p].id) : jobs[a].priority # 0]_vars

\* The backoff the claim states for attempt k: min(base * 2^(k-1), ceiling).
Backoff(k) ==
    IF retryDelay * 2^(k - 1) <= RetryCeiling THEN retryDelay * 2^(k - 1)
    ELSE RetryCeiling

\* failJob's last step, taken for a job that is sent to retry.
SchedulesRetry(p) ==
    pc[p] = "f_put" /\ pc'[p] # "f_put" /\ loc[p].job.status # "failed"

\* The delay that step applies: the ready-time it writes, less now.
AppliedDelay(p) == delayed'[loc[p].id] - now

\* C14: the delay failJob applies at attempt k is min(base * 2^(k-1),
\* 300000), never exceeds the ceiling, and is larger than the delay applied
\* at attempt k-1 (which, by the first conjunct at that failure, was
\* Backoff(k-1)).
C14_BackoffStrictlyIncreasing ==
    [][\A p \in Clients :
          SchedulesRetry(p) =>
              LET k == loc[p].job.attempts
              IN  /\ AppliedDelay(p) = Backoff(k)
                  /\ AppliedDelay(p) <= RetryCeiling
                  /\ k > 1 => AppliedDelay(p) > Backoff(k - 1)]_vars

\* C14 as amended: the delay is min(base * 2^(k-1), 300000), never exceeds
\* the ceiling and never decreases; it is larger than the delay before it
\* as long as that one was below the ceiling.
C14_BackoffCapped ==
    [][\A p \in Clients :
          SchedulesRetry(p) =>
              LET k == loc[p].job.attempts
              IN  /\ AppliedDelay(p) = Backoff(k)
                  /\ AppliedDelay(p) <= RetryCeiling
                  /\ k > 1 => /\ AppliedDelay(p) >= Backoff(k - 1)
                              /\ Backoff(k - 1) < RetryCeiling
                                    => AppliedDelay(p) > Backoff(k - 1)]_vars

\* failJob has just sent a job to retry with the ceiling as its delay, the
\* delay before it having been the ceiling already.
C14_Witness ==
    \E p \in Clients :
        /\ ret[p].op = "failJob" /\ ret[p].val = "ok"
        /\ ret[p].id \in DOMAIN delayed
        /\ jobs[ret[p].id].attempts > 1
        /\ Backoff(jobs[ret[p].id].attempts - 1) = RetryCeiling
        /\ delayed[ret[p].id] - now = RetryCeiling

\* C15: a job added with option timeout = T whose handler runs longer than
\* T is failed with a TimeoutError after T: no handler of a job added with
\* timeout TimeoutOpt (every job of SpecFaulty) is still running, its timer
\* not having fired, later than TimeoutOpt after it was started.
C15_PerJobTimeout ==
    \A w \in Workers : pc[w] = "handler" => now <= loc[w].timer + TimeoutOpt

\* C16: for each job a worker dequeues exactly one outcome is reported:
\* completeJob alone if the handler returned, failJob alone if it threw or
\* the timer fired; and whatever happens the worker is back at the top of
\* its poll loop, still running.
C16_ExactlyOneOutcome ==
    [][\A w \in Workers :
          (InCompleteJob(w) \/ InFailJob(w)) /\ ~(InCompleteJob(w) \/ InFailJob(w))'
             => /\ loc[w].reported =
                      IF loc[w].outcome = "returned" THEN <<"completeJob">>
                      ELSE <<"failJob">>
                /\ pc'[w] = "loop"
                /\ running'[w]]_vars

\* A worker is in the failJob call it made for want of a handler.
FailsForNoHandler(w) == InFailJob(w) /\ loc[w].outcome = "nohandler"

\* C17: a worker that dequeues a job whose name has no handler runs no
\* handler and calls failJob for it; that call raises the job's attempts by
\* one and then sends the job to retry (ready after the backoff) if attempts
\* is below maxAttempts, and makes it failed otherwise.
C17_NoHandlerFailsJob ==
    [][\A w \in Workers :
          /\ pc[w] = "g_sadd" /\ pc'[w] # "g_sadd" /\ ~HasHandler(w, loc[w].job.name)
                => /\ pc'[w] = "f_get" /\ loc'[w].id = loc[w].id
                   /\ runs' = runs
          /\ FailsForNoHandler(w) /\ pc[w] = "f_set" /\ pc'[w] # "f_set"
                => jobs'[loc[w].id].attempts = jobs[loc[w].id].attempts + 1
          /\ FailsForNoHandler(w) /\ pc[w] = "f_put" /\ pc'[w] # "f_put"
                => LET j == loc[w].id
                       job == loc[w].job
                   IN  IF job.attempts < job.maxAttempts
                       THEN /\ j \in DOMAIN delayed'
                            /\ delayed'[j] = now + calculateRetryDelay(job.attempts)
                            /\ j \notin failed'
                       ELSE j \in failed' /\ job.status = "failed"]_vars

\* C18: completeJob on a job of the active set takes the id out of the
\* active set and puts it in the completed set, and when it returns the
\* record has status "completed" with result and completedAt set, the other
\* records and partitions being as they were; completeJob or failJob on an
\* id without a record throws and changes no partition and no record.
C18_CompleteMovesActive ==
    [][\A p \in Clients :
          LET j == loc[p].id
          IN  /\ pc[p] = "c_srem" /\ pc'[p] # "c_srem" /\ j \in active
                    => /\ active' = active \ {j}
                       /\ <<jobs, waiting, delayed, completed, failed>>'
                             = <<jobs, waiting, delayed, completed, failed>>
              /\ pc[p] = "c_sadd" /\ pc'[p] # "c_sadd"
                    => /\ ret'[p] = [op |-> "completeJob", val |-> "ok", id |-> j]
                       /\ completed' = completed \cup {j}
                       /\ j \notin active'
                       /\ jobs'[j].status = "completed"
                       /\ jobs'[j].result /\ jobs'[j].completedAt
                       /\ <<jobs, waiting, delayed, active, failed>>'
                             = <<jobs, waiting, delayed, active, failed>>
              /\ pc[p] \in {"c_get", "f_get"} /\ pc'[p] # pc[p] /\ j \notin DOMAIN jobs
                    => /\ ret'[p].val = "NotFound" /\ ret'[p].id = j
                       /\ pc'[p] = "idle"
                       /\ store' = store]_vars

\* completeJob has returned for a job that was dequeued once and never
\* failed: the id is in the completed set and nowhere else.
C18_Witness ==
    \E p \in Clients :
        /\ ret[p].op = "completeJob" /\ ret[p].val = "ok"
        /\ jobs[ret[p].id].startedAt /\ jobs[ret[p].id].attempts = 0
        /\ jobs[ret[p].id].status = "completed"
        /\ ret[p].id \in completed
        /\ Memberships(ret[p].id) = 1

\* A clean call is in progress.
InClean(p) == pc[p] \in {"k_members", "k_get"}

\* C19: cleanCompleted (cleanFailed) removes only jobs of the completed
\* (failed) partition and returns the number it removed: a step of the call
\* leaves the waiting list, the other partitions and the records of the jobs
\* outside its partition as they are, and the call ends by returning its
\* count of removed jobs, not by throwing.
C19_CleanReturnsCount ==
    [][\A p \in Clients :
          InClean(p) /\ pc'[p] # pc[p]
             => /\ waiting' = waiting /\ delayed' = delayed /\ active' = active
                /\ loc[p].part = "completed" => failed' = failed
                /\ loc[p].part = "failed" => completed' = completed
                /\ \A j \in DOMAIN jobs :
                      j \notin (IF loc[p].part = "completed" THEN completed ELSE failed)
                         => j \in DOMAIN jobs' /\ jobs'[j] = jobs[j]
                /\ pc'[p] = "idle"
                      => /\ ret'[p].val = "count"
                         /\ ret'[p].id = Cardinality(DOMAIN jobs \ DOMAIN jobs')
                                          + loc[p].cleaned]_vars

\* WorkerPool.getStats: the sum of a counter over the workers.
RECURSIVE SumOver(_, _)
SumOver(f, S) ==
    IF S = {} THEN 0 ELSE LET w == CHOOSE x \in S : TRUE IN f[w] + SumOver(f, S \ {w})

totalProcessed == SumOver(processedJobs, Workers)
totalFailed == SumOver(failedJobs, Workers)

\* No handler has thrown and no worker has called failJob so far: the pool
\* has behaved as one whose handler always succeeds.
HandlerAlwaysSucceeded ==
    \A w \in Workers : ~InFailJob(w) /\ failedJobs[w] = 0

\* C20: in a started pool whose handler always succeeds every enqueued job
\* is executed exactly once and the pool's totalProcessed ends at the number
\* of enqueued jobs: no job is executed a second time and totalProcessed
\* never exceeds the number of jobs added.
C20_EachJobExecutedOnce ==
    HandlerAlwaysSucceeded =>
        /\ \A j \in JobIds : runs[j] <= 1
        /\ totalProcessed <= nextId
        /\ totalFailed = 0

\* The jobs worker w has obtained from getNextJob so far: those it has
\* reported (processJob counts each in processedJobs or in failedJobs) and
\* the one it holds.
jobsObtained(w) == processedJobs[w] + failedJobs[w] + B2N(currentJob[w] # NoId)

\* C21: over its lifetime a worker obtains at most maxJobsPerWorker jobs
\* from getNextJob, whether they ended completed or failed.
C21_RetiresAfterMaxJobs ==
    \A w \in Workers : jobsObtained(w) <= maxJobsPerWorker

\* WorkerPool.stop is in progress for p.
InStop(p) == pc[p] = "s_wait"

\* A step of WorkerPool.stop made by p: the call, or a turn of its wait.
StopStep(p) ==
    \/ pc[p] = "idle" /\ pc'[p] = "s_wait"
    \/ InStop(p) /\ (pc'[p] # pc[p] \/ loc'[p] # loc[p])

\* C22: WorkerPool.stop and the Worker.stop calls it awaits return within
\* maxWaitTime of the call, and no step of stop touches a worker's job in
\* flight: a handler that runs when stop is called ends in a completeJob or
\* failJob call for its job, and that call is carried through.
C22_StopBoundedAndCooperative ==
    /\ [][\A p \in Clients :
             /\ StopStep(p)
                   => \A w \in Workers :
                         /\ pc'[w] = pc[w] /\ loc'[w] = loc[w]
                         /\ currentJob'[w] = currentJob[w]
             /\ InStop(p)' => now' - loc'[p].timer <= maxWaitTime
             /\ InStop(p) /\ ~InStop(p)'
                   => /\ ret'[p] = [op |-> "stop", val |-> "ok", id |-> NoId]
                      /\ now' - loc[p].timer <= maxWaitTime]_vars
    /\ [][\A w \in Workers :
             pc[w] = "handler" /\ pc'[w] # "handler"
                => /\ pc'[w] \in {"c_get", "f_get"}
                   /\ loc'[w].id = currentJob[w]]_vars
    /\ \A w \in Workers :
          (~running[w] /\ currentJob[w] # NoId)
             ~> (currentJob[w] = NoId /\ processedJobs[w] + failedJobs[w] > 0)

\* WorkerPool.stop has returned after the whole grace period, a handler
\* still running then; the handler has returned since and the worker is in
\* the completeJob call for its job.
C22_Witness ==
    \E p \in Clients : \E w \in Workers :
        /\ ret[p] = [op |-> "stop", val |-> "ok", id |-> NoId]
        /\ now = maxWaitTime
        /\ ~running[w] /\ workerStatus[w] = "stopped"
        /\ pc[w] = "c_sadd" /\ currentJob[w] = loc[w].id

\* A call of isHealthy by p returns (a call that returns what p's last call
\* returned leaves the state as it is).
IsHealthyReturns(p) == ret'[p] # ret[p] /\ ret'[p].op = "isHealthy"

\* The workers whose status is neither "error" nor "stopped" are at least
\* half of poolSize.
HalfAreWell ==
    \E S \in SUBSET Workers :
        /\ \A w \in S : workerStatus[w] \notin {"error", "stopped"}
        /\ Cardinality(S) + Cardinality(S) >= poolSize

\* C23: isHealthy returns true exactly when the pool is running and at least
\* half of poolSize workers are neither in error nor stopped; it returns
\* false on a pool that was never started and on a stopped pool.
C23_IsHealthy ==
    [][\A p \in Clients :
          IsHealthyReturns(p)
             => /\ ret'[p].val = "true" <=> (poolRunning /\ HalfAreWell)
                /\ ret'[p].val \in {"true", "false"}
                /\ (\A w \in Workers : pc[w] = "new") => ret'[p].val = "false"
                /\ (\E q \in Clients : InStop(q)) \/ ~poolRunning
                      => ret'[p].val = "false"]_vars

\* isHealthy has returned true on a running pool of which exactly half the
\* workers are well, another being in error or stopped.
C23_Witness ==
    \E p \in Clients :
        /\ ret[p] = [op |-> "isHealthy", val |-> "true", id |-> NoId]
        /\ poolRunning
        /\ 2 * healthyWorkers = poolSize
        /\ \E w \in Workers : workerStatus[w] = "error"

\* Worker w has caught an error in processLoop and not polled since.
InLoopCatch(w) == workerStatus[w] = "error" /\ pc[w] = "loop"

\* C24: a store error in a worker's poll loop does not end the loop: the
\* worker leaves the loop only by retiring at its job limit, after an error
\* it polls again, and the store being available again its poll goes through
\* (its lpop succeeds and it goes on to the job or to the delayed jobs).
C24_LoopSurvivesStoreError ==
    /\ [][\A w \in Workers :
             running[w] /\ (~running'[w] \/ pc'[w] = "exited")
                => pc[w] = "loop" /\ ReachedMaxJobs(processedJobs[w])]_vars
    /\ \A w \in Workers : InLoopCatch(w) ~> pc[w] = "g_lpop"
    /\ \A w \in Workers : InLoopCatch(w) ~> pc[w] \in {"g_get", "p_hgetall"}

\* A worker that caught a store error in its loop has polled again and is
\* about to be handed the job it dequeued.
C24_Witness ==
    \E w \in Workers :
        /\ workerStatus[w] = "error" /\ running[w]
        /\ pc[w] = "g_sadd" /\ loc[w].id \in DOMAIN jobs

\* stop() has been called on worker w (by the pool or by w itself at its job
\* limit) and has returned.
StopReturnedOn(w) ==
    /\ pc[w] # "new" /\ ~running[w]
    /\ \A p \in Clients : InStop(p) => w \notin loc[p].todo

\* C25: in every reachable state a worker's currentJob is set if and only if
\* its status is "busy", and a worker on which stop() has returned has
\* status "stopped".
C25_CurrentJobIffBusy ==
    \A w \in Workers :
        /\ currentJob[w] # NoId <=> workerStatus[w] = "busy"
        /\ StopReturnedOn(w) => workerStatus[w] = "stopped"

\* The names registered on the pool after it gave worker w its handlers.
RegisteredLate(w) == poolHandlers \ workerHandlers[w]

\* C26: start gives every worker the handlers registered on the pool before
\* it, and a later registration reaches no spawned worker: a worker that
\* dequeues a job of a name registered late runs no handler and calls
\* failJob for want of one, while a job of a name registered before start
\* has its handler run.
C26_LateHandlerInvisible ==
    [][/\ ~poolRunning /\ poolRunning'
             => \A w \in Workers : workerHandlers'[w] = poolHandlers
       /\ poolRunning => workerHandlers' = workerHandlers
       /\ \A w \in Workers :
             pc[w] = "g_sadd" /\ pc'[w] # "g_sadd"
                => /\ loc[w].job.name \in RegisteredLate(w)
                         => /\ pc'[w] = "f_get" /\ loc'[w].outcome = "nohandler"
                            /\ runs' = runs
                   /\ loc[w].job.name \in workerHandlers[w]
                         => /\ pc'[w] = "handler"
                            /\ runs'[loc[w].id] = runs[loc[w].id] + 1]_vars

\* A worker is in the failJob call it made for want of a handler, for a job
\* whose name has a handler on the pool, while the other name was registered
\* before start and is known to the worker.
C26_Witness ==
    \E w \in Workers :
        /\ FailsForNoHandler(w)
        /\ jobs[loc[w].id].name \in RegisteredLate(w)
        /\ workerHandlers[w] # {}

\* C27: a getNextJob call promotes the delayed jobs whose ready-time has
\* elapsed also when the waiting list is not empty: when the call returns,
\* with a job or with null, no job whose ready-time had elapsed when the
\* call was made is left in the delayed partition (the clock of SpecStarve
\* stands still during a call).
C27_ReadyDelayedPromoted ==
    [][\A p \in Clients :
          (InGetNextJob(p) \/ InPromote(p)) /\ pc'[p] = "idle"
             => \A id \in DOMAIN delayed' : ~IsReady(delayed'[id], now)]_vars

\* C28: a priority-0 job goes to the back of the waiting list: getNextJob
\* never returns a priority-0 job while a job of priority > 0 that was
\* waiting when it was added (added before it, without delay) still waits.
C28_PlainJobGoesLast ==
    [][\A p \in Clients :
          ReturnsJob(p) /\ loc[p].job.priority = 0
             => \A a \in WaitingAddedBefore(loc[p].id) : jobs[a].priority <= 0]_vars

\* C29: the retry delay of a job is computed from the retryDelay option it
\* was added with: the delay failJob applies at attempt k to a job added
\* with retryDelay = RetryDelayOpt (every job of SpecBaseDelay) is
\* min(RetryDelayOpt * 2^(k-1), 300000).
C29_RetryDelayFromOptions ==
    [][\A p \in Clients :
          SchedulesRetry(p) =>
              AppliedDelay(p)
                 = Min(RetryDelayOpt * 2^(loc[p].job.attempts - 1), RetryCeiling)]_vars

\* removeJob is in progress for p.
InRemoveJob(p) == pc[p] \in {"r_get", "r_del"}

\* C30: when removeJob(id) returns, id is in no partition, the waiting list
\* included, and getStats counts the jobs that have a record and no others;
\* and getNextJob never pops an id whose job was removed (to return null
\* for it while other jobs wait).
C30_RemoveJobFromEveryPartition ==
    [][\A p \in Clients :
          /\ InRemoveJob(p) /\ pc'[p] = "idle"
                => /\ \A i \in 1..Len(waiting') : waiting'[i] # loc[p].id
                   /\ loc[p].id \notin
                         (DOMAIN delayed' \cup active' \cup completed' \cup failed')
                   /\ getStats'.total = Cardinality(DOMAIN jobs')
          /\ pc[p] = "g_lpop" /\ pc'[p] = "g_get"
                => loc'[p].id \in DOMAIN jobs]_vars

\* C31: the attempts counter of a job never decreases, whatever the
\* interleaving of the getNextJob, promotion, completeJob and failJob calls
\* of the workers, each of which reads and rewrites the whole record.
C31_AttemptsNeverDecrease ==
    [][\A j \in DOMAIN jobs :
          j \in DOMAIN jobs' => jobs'[j].attempts >= jobs[j].attempts]_vars

C33_StoppedWorkerStartsNoJob ==
    [][\A w \in Workers :
          StopReturnedOn(w)
             => /\ pc'[w] = "handler" => pc[w] = "handler"
                /\ pc[w] = "g_sadd" => active' = active]_vars

\* C34: at no time are two invocations of the handler in progress for one job
\* id, an invocation the timer of executeWithTimeout gave up on included.
inProgress(j) ==
    Cardinality({w \in Workers : pc[w] = "handler" /\ currentJob[w] = j})
        + abandoned[j]

C34_OneInvocationPerJob == \A j \in JobIds : inProgress(j) <= 1

\* C35: a job whose handler returned is not failed or re-scheduled by its
\* worker: the worker does not go from completeJob into failJob, and no step
\* of a worker whose handler returned puts its job in the failed set or in
\* the delayed hash.
C35_SucceededJobNotFailed ==
    [][\A w \in Workers :
          /\ InCompleteJob(w) => ~InFailJob(w)'
          /\ (InCompleteJob(w) \/ InFailJob(w)) /\ loc[w].outcome = "returned"
                /\ pc'[w] # pc[w]
                => /\ loc[w].id \in failed' => loc[w].id \in failed
                   /\ loc[w].id \in DOMAIN delayed' => loc[w].id \in DOMAIN delayed]_vars

\* C36: when add or getNextJob ends in a store error, every job that has a
\* record is in exactly one partition, once; no record is left outside the
\* partitions.
FailsOnStore(p) ==
    /\ InAdd(p) \/ InGetNextJob(p)
    /\ pc'[p] = "idle"
    /\ ret'[p].val = "StoreError"

C36_NoJobLostOnStoreError ==
    [][\A p \in Clients :
          FailsOnStore(p) => \A j \in DOMAIN jobs' : Memberships(j)' = 1]_vars

\* C37: whenever no queue call is in progress, the total getStats reports is
\* the sum of its five counts and is the number of job records: every job
\* that exists is counted once, and nothing else is counted.
C37_StatsCountEveryJobOnce ==
    Quiescent =>
        /\ getStats.total = getStats.waiting + getStats.active + getStats.completed
                                + getStats.failed + getStats.delayed
        /\ getStats.total = Cardinality(DOMAIN jobs)

\* C38: a worker whose poll succeeds is not in status "error" afterwards,
\* whether getNextJob hands it a job or, the queue being empty, returns null
\* after looking at the delayed jobs.
C38_SuccessfulPollClearsError ==
    [][\A w \in Workers :
          /\ pc[w] = "g_sadd" /\ pc'[w] = "handler" => workerStatus'[w] # "error"
          /\ InPromote(w) /\ pc'[w] = "loop" => workerStatus'[w] # "error"]_vars

====
